---- MODULE Spec2Model ----
(***************************************************************************)
(* Reprojection residual functors of openMVG's bundle adjustment           *)
(* (sfm_data_BA_ceres_camera_functor.hpp): Pinhole, Radial-K1, Radial-K3   *)
(* and Rig.                                                                *)
(*                                                                         *)
(* Numbers.  The template type T (double, or a ceres Jet) is modelled by   *)
(* exact rationals <<n, d>> in lowest terms with d > 0, plus one absorbing *)
(* value NonFinite that stands for the IEEE results of a division by zero  *)
(* (+inf, -inf, NaN).  In the four functors the only divisor is            *)
(* pos_proj[2], which is computed before any division, so a non-finite     *)
(* value is never a divisor and stays non-finite through +, - and *.       *)
(*                                                                         *)
(* Rotations.  The first three entries of an extrinsics block and of a     *)
(* rig sub-pose are an angle-axis vector.  The model stores them in units  *)
(* of a quarter turn (pi/2) and restricts them to axis-aligned vectors,    *)
(* the rotations whose Rodrigues formula has exact rational results.       *)
(***************************************************************************)
EXTENDS Integers, Sequences, FiniteSets, TLC

----------------------------------------------------------------------------
(* Bounds of the explored inputs *)

\* the z coordinate of the 3D point ranges over 0..MaxZ
MaxZ == 1

\* the distortion coefficient k1 ranges over 0..MaxK
MaxK == 1

----------------------------------------------------------------------------
(* Offsets of the intrinsics block (enum of each functor) *)

OFFSET_FOCAL_LENGTH == 0
OFFSET_PRINCIPAL_POINT_X == 1
OFFSET_PRINCIPAL_POINT_Y == 2
OFFSET_DISTO_K1 == 3
OFFSET_DISTO_K2 == 4
OFFSET_DISTO_K3 == 5

\* C arrays are 0-based, TLA+ sequences 1-based
At(block, offset) == block[offset + 1]

----------------------------------------------------------------------------
(* Arithmetic of the numeric type T *)

Abs(n) == IF n < 0 THEN -n ELSE n

Sign(n) == IF n < 0 THEN -1 ELSE IF n > 0 THEN 1 ELSE 0

RECURSIVE GCD(_, _)
GCD(a, b) == IF b = 0 THEN a ELSE GCD(b, a % b)

NonFinite == <<0, 0>>

IsFinite(a) == a[2] # 0

\* the rational n/d in lowest terms, d # 0
Norm(n, d) ==
  LET g == GCD(Abs(n), Abs(d))
      s == Sign(d)
  IN  <<(s * n) \div g, (s * d) \div g>>

\* T(x) for an integer-valued double x
ToT(x) == <<x, 1>>

Zero == ToT(0)

One == ToT(1)

Add(a, b) ==
  IF ~IsFinite(a) \/ ~IsFinite(b) THEN NonFinite
  ELSE LET g == GCD(a[2], b[2])
       IN  Norm(a[1] * (b[2] \div g) + b[1] * (a[2] \div g), (a[2] \div g) * b[2])

Neg(a) == IF IsFinite(a) THEN <<-a[1], a[2]>> ELSE NonFinite

Sub(a, b) == Add(a, Neg(b))

Mul(a, b) ==
  IF ~IsFinite(a) \/ ~IsFinite(b) THEN NonFinite
  ELSE LET g1 == GCD(Abs(a[1]), b[2])
           g2 == GCD(Abs(b[1]), a[2])
       IN  Norm((a[1] \div g1) * (b[1] \div g2), (a[2] \div g2) * (b[2] \div g1))

\* a / b; a division by zero gives +-inf or NaN
Div(a, b) ==
  IF ~IsFinite(a) \/ ~IsFinite(b) \/ b[1] = 0 THEN NonFinite
  ELSE Norm(a[1] * b[2], a[2] * b[1])

----------------------------------------------------------------------------
(* ceres::AngleAxisRotatePoint: Rodrigues' formula *)

\* cos and sin of q quarter turns
Cos4(q) == CASE q % 4 = 0 -> 1 [] q % 4 = 1 -> 0 [] q % 4 = 2 -> -1 [] OTHER -> 0

Sin4(q) == CASE q % 4 = 0 -> 0 [] q % 4 = 1 -> 1 [] q % 4 = 2 -> 0 [] OTHER -> -1

Dot(a, p) == Add(Add(Mul(a[1], p[1]), Mul(a[2], p[2])), Mul(a[3], p[3]))

Cross(a, p) ==
  << Sub(Mul(a[2], p[3]), Mul(a[3], p[2])),
     Sub(Mul(a[3], p[1]), Mul(a[1], p[3])),
     Sub(Mul(a[1], p[2]), Mul(a[2], p[1])) >>

\* angle_axis: three integers, an axis-aligned vector in quarter turns;
\* pt: three values of T.  theta = |angle_axis|, a = angle_axis / theta,
\* result = pt cos(theta) + (a x pt) sin(theta) + a (a . pt) (1 - cos(theta));
\* for theta = 0 the first-order branch pt + angle_axis x pt, which is pt.
AngleAxisRotatePoint(angle_axis, pt) ==
  LET theta == Abs(angle_axis[1]) + Abs(angle_axis[2]) + Abs(angle_axis[3])
      a     == [i \in 1..3 |-> ToT(Sign(angle_axis[i]))]
      w     == [i \in 1..3 |-> ToT(angle_axis[i])]
      c     == ToT(Cos4(theta))
      s     == ToT(Sin4(theta))
      axp   == Cross(a, pt)
      adp   == Mul(Dot(a, pt), Sub(One, c))
      wxp   == Cross(w, pt)
  IN  IF theta = 0
      THEN << Add(pt[1], wxp[1]), Add(pt[2], wxp[2]), Add(pt[3], wxp[3]) >>
      ELSE << Add(Add(Mul(pt[1], c), Mul(axp[1], s)), Mul(a[1], adp)),
              Add(Add(Mul(pt[2], c), Mul(axp[2], s)), Mul(a[2], adp)),
              Add(Add(Mul(pt[3], c), Mul(axp[3], s)), Mul(a[3], adp)) >>

\* three integer-valued doubles as values of T
AsT(v) == << ToT(v[1]), ToT(v[2]), ToT(v[3]) >>

----------------------------------------------------------------------------
(* The stages of operator(): K is cam_K, Rt is cam_Rt, X is pos_3dpoint,   *)
(* obs is m_pos_2dpoint                                                    *)

\* Pinhole, Radial-K1, Radial-K3 (the three copies are the same text):
\* pos_proj = Rotate(cam_R, pos_3dpoint) + cam_t
ApplyPose(Rt, X) ==
  LET cam_R == SubSeq(Rt, 1, 3)
      cam_t == SubSeq(Rt, 4, 6)
      p     == AngleAxisRotatePoint(cam_R, AsT(X))
  IN  << Add(p[1], ToT(cam_t[1])),
         Add(p[2], ToT(cam_t[2])),
         Add(p[3], ToT(cam_t[3])) >>

\* Rig: pos_proj = Rotate(cam_subpose_R, Rotate(cam_pose_R, pos_3dpoint))
\*                 + (cam_subpose_t + Rotate(cam_pose_R, cam_subpose_t));
\* cam_pose_t = &cam_Rt[3] is declared and never read
ApplyRigPose(K, Rt, X) ==
  LET cam_pose_R    == SubSeq(Rt, 1, 3)
      cam_pose_t    == SubSeq(Rt, 4, 6)
      cam_subpose_R == SubSeq(K, 4, 6)
      cam_subpose_t == SubSeq(K, 7, 9)
      pos_rig       == AngleAxisRotatePoint(cam_pose_R, AsT(X))
      p             == AngleAxisRotatePoint(cam_subpose_R, pos_rig)
      rig_trans     == AngleAxisRotatePoint(cam_pose_R, AsT(cam_subpose_t))
  IN  << Add(p[1], Add(ToT(cam_subpose_t[1]), rig_trans[1])),
         Add(p[2], Add(ToT(cam_subpose_t[2]), rig_trans[2])),
         Add(p[3], Add(ToT(cam_subpose_t[3]), rig_trans[3])) >>

\* x_u = pos_proj[0] / pos_proj[2], y_u = pos_proj[1] / pos_proj[2]
Euclidean(p) == << Div(p[1], p[3]), Div(p[2], p[3]) >>

\* r2 = x_u*x_u + y_u*y_u
R2(xy) == Add(Mul(xy[1], xy[1]), Mul(xy[2], xy[2]))

\* a slip of RCoeff_K1: + for *
RCoeff_K1_Sum(K, xy) ==
  LET k1 == ToT(At(K, OFFSET_DISTO_K1))
      r2 == R2(xy)
  IN  Add(One, Add(k1, r2))

\* Radial-K1: r_coeff = T(1) + k1*r2
RCoeff_K1(K, xy) ==
  LET k1 == ToT(At(K, OFFSET_DISTO_K1))
      r2 == R2(xy)
  IN  Add(One, Mul(k1, r2))

\* a slip of RCoeff_K3: k1 multiplies r4
RCoeff_K3_R4(K, xy) ==
  LET k1 == ToT(At(K, OFFSET_DISTO_K1))
      k2 == ToT(At(K, OFFSET_DISTO_K2))
      k3 == ToT(At(K, OFFSET_DISTO_K3))
      r2 == R2(xy)
      r4 == Mul(r2, r2)
      r6 == Mul(r4, r2)
  IN  Add(Add(Add(One, Mul(k1, r4)), Mul(k2, r4)), Mul(k3, r6))

\* Radial-K3: r_coeff = T(1) + k1*r2 + k2*r4 + k3*r6
RCoeff_K3(K, xy) ==
  LET k1 == ToT(At(K, OFFSET_DISTO_K1))
      k2 == ToT(At(K, OFFSET_DISTO_K2))
      k3 == ToT(At(K, OFFSET_DISTO_K3))
      r2 == R2(xy)
      r4 == Mul(r2, r2)
      r6 == Mul(r4, r2)
  IN  Add(Add(Add(One, Mul(k1, r2)), Mul(k2, r4)), Mul(k3, r6))

\* a slip of Distort: y_u is left undistorted
Distort_XOnly(xy, r_coeff) == << Mul(xy[1], r_coeff), xy[2] >>

\* x_d = x_u * r_coeff, y_d = y_u * r_coeff
Distort(xy, r_coeff) == << Mul(xy[1], r_coeff), Mul(xy[2], r_coeff) >>

\* the coordinates the intrinsics are applied to
Distorted(k, K, xy) ==
  CASE k = "RadialK1" -> Distort(xy, RCoeff_K1(K, xy))
    [] k = "RadialK3" -> Distort(xy, RCoeff_K3(K, xy))
    [] OTHER          -> xy

\* projected = principal_point + focal * xy
ApplyIntrinsics(K, xy) ==
  LET focal             == ToT(At(K, OFFSET_FOCAL_LENGTH))
      principal_point_x == ToT(At(K, OFFSET_PRINCIPAL_POINT_X))
      principal_point_y == ToT(At(K, OFFSET_PRINCIPAL_POINT_Y))
  IN  << Add(principal_point_x, Mul(focal, xy[1])),
         Add(principal_point_y, Mul(focal, xy[2])) >>

\* a slip of Residual0: observed minus predicted
Residual0_Flipped(projected, obs) == Sub(ToT(obs[1]), projected[1])

\* out_residuals[0] = projected_x - T(m_pos_2dpoint[0])
Residual0(projected, obs) == Sub(projected[1], ToT(obs[1]))

\* a slip of Residual1: slot 0 of the observation
Residual1_Slot0(projected, obs) == Sub(projected[2], ToT(obs[1]))

\* out_residuals[1] = projected_y - T(m_pos_2dpoint[1])
Residual1(projected, obs) == Sub(projected[2], ToT(obs[2]))

\* pos_proj of the functor of kind k
PosProj(k, K, Rt, X) ==
  IF k = "Rig" THEN ApplyRigPose(K, Rt, X) ELSE ApplyPose(Rt, X)

\* the projected pixel, from the normalized coordinates
Projected(k, K, xy) == ApplyIntrinsics(K, Distorted(k, K, xy))

\* the two residuals one sequential invocation writes
Evaluate(k, obs, K, Rt, X) ==
  LET projected == Projected(k, K, Euclidean(PosProj(k, K, Rt, X)))
  IN  << Residual0(projected, obs), Residual1(projected, obs) >>

----------------------------------------------------------------------------
(* Inputs *)

Kinds == {"Pinhole", "RadialK1", "RadialK3", "Rig"}

\* two functor objects, two worker threads
Instances == {1, 2}

Workers == {"w1", "w2"}

\* observations given to the constructors
ObsSet == { <<1, 0>>, <<500, 500>>, <<510, 500>> }

FocalSet == {1, 1000}

\* principal points <<ppx, ppy>>
PPSet == { <<0, 0>>, <<500, 500>> }

\* angle-axis vectors, in quarter turns: none, about z, about x
RotSet == { <<0, 0, 0>>, <<0, 0, 1>>, <<1, 0, 0>> }

\* camera (platform) translations; <<0, 1, -1>> puts points at depth 0 and behind
TransSet == { <<0, 0, 0>>, <<0, 0, 1>>, <<1, 0, 1>>, <<0, 1, -1>> }

\* sub-pose translations of a rig camera
SubTransSet == { <<0, 0, 0>>, <<0, 1, 1>> }

PointSet == { <<x, y, z>> : x \in {0, 1}, y \in {0, 1}, z \in 0..MaxZ }

\* values of k1
DistoSet == 0..MaxK

\* values of k2 and of k3
HighDistoSet == {0, 1}

\* the intrinsics blocks of a functor of kind k: 3, 4, 6 or 9 values
KSet(k) ==
  LET base == { << f, pp[1], pp[2] >> : f \in FocalSet, pp \in PPSet }
  IN  CASE k = "Pinhole"  -> base
        [] k = "RadialK1" -> { b \o << k1 >> : b \in base, k1 \in DistoSet }
        [] k = "RadialK3" -> { b \o ks : b \in base, ks \in DistoSet \X HighDistoSet \X HighDistoSet }
        [] k = "Rig"      -> { b \o r \o t : b \in base, r \in RotSet, t \in SubTransSet }

\* the extrinsics blocks: rotation, translation
RtSet == { r \o t : r \in RotSet, t \in TransSet }

----------------------------------------------------------------------------
(* State *)

VARIABLES
  kind,           \* kind[i]: the struct functor i is an object of
  m_pos_2dpoint,  \* m_pos_2dpoint[i]: the member of functor i
  pos_2dpoint,    \* pos_2dpoint[i]: the array functor i was constructed from
  functor,        \* functor[w]: the object worker w invokes
  cam_K,          \* cam_K[w], cam_Rt[w], pos_3dpoint[w]: the blocks worker w passes
  cam_Rt,
  pos_3dpoint,
  out_residuals,  \* out_residuals[w]: the two slots worker w passes
  ret,            \* ret[w]: the flag the last invocation of worker w returned
  pc,             \* pc[w]: where worker w is
  pos_proj,       \* pos_proj[w], x_u[w], y_u[w]: locals of the invocation of w
  x_u,
  y_u

vars == << kind, m_pos_2dpoint, pos_2dpoint, functor, cam_K, cam_Rt,
           pos_3dpoint, out_residuals, ret, pc, pos_proj, x_u, y_u >>

blocks == << cam_K, cam_Rt, pos_3dpoint >>

objects == << kind, m_pos_2dpoint, pos_2dpoint >>

\* a fresh output buffer and an empty frame
NoResiduals == << Zero, Zero >>

NoPoint == << Zero, Zero, Zero >>

\* the observation of the object worker w invokes
Obs(w) == m_pos_2dpoint[functor[w]]

KindOf(w) == kind[functor[w]]

\* the constructor copies the two values of its argument
Constructor(arg) == << arg[1], arg[2] >>

\* nothing has been invoked: zeroed buffers, empty frames
Idle ==
  /\ out_residuals = [w \in Workers |-> NoResiduals]
  /\ ret = [w \in Workers |-> FALSE]
  /\ pc = [w \in Workers |-> "ready"]
  /\ pos_proj = [w \in Workers |-> NoPoint]
  /\ x_u = [w \in Workers |-> Zero]
  /\ y_u = [w \in Workers |-> Zero]

----------------------------------------------------------------------------
(* The sequential caller: worker Main evaluates one residual block *)

Main == "w1"

Other == "w2"

\* one functor of any kind on any observation, wired to blocks of its sizes
Init ==
  /\ \E k \in Kinds, arg \in ObsSet :
       /\ kind = [i \in Instances |-> k]
       /\ pos_2dpoint = [i \in Instances |-> arg]
       /\ m_pos_2dpoint = [i \in Instances |-> Constructor(arg)]
       /\ \E K \in KSet(k) : cam_K = [w \in Workers |-> K]
  /\ functor = [w \in Workers |-> 1]
  /\ \E Rt \in RtSet : cam_Rt = [w \in Workers |-> Rt]
  /\ \E X \in PointSet : pos_3dpoint = [w \in Workers |-> X]
  /\ Idle

\* a variant of Invoke that checks the depth and fails on zero
Invoke_DepthCheck(w) ==
  /\ pc[w] \in {"ready", "returned"}
  /\ pos_proj' = [pos_proj EXCEPT ![w] =
                    PosProj(KindOf(w), cam_K[w], cam_Rt[w], pos_3dpoint[w])]
  /\ IF pos_proj'[w][3] = Zero
     THEN /\ ret' = [ret EXCEPT ![w] = FALSE]
          /\ UNCHANGED << x_u, y_u, out_residuals >>
     ELSE /\ x_u' = [x_u EXCEPT ![w] = Euclidean(pos_proj'[w])[1]]
          /\ y_u' = [y_u EXCEPT ![w] = Euclidean(pos_proj'[w])[2]]
          /\ out_residuals' = [out_residuals EXCEPT ![w] =
               << Residual0(Projected(KindOf(w), cam_K[w], << x_u'[w], y_u'[w] >>), Obs(w)),
                  Residual1(Projected(KindOf(w), cam_K[w], << x_u'[w], y_u'[w] >>), Obs(w)) >>]
          /\ ret' = [ret EXCEPT ![w] = TRUE]
  /\ pc' = [pc EXCEPT ![w] = "returned"]
  /\ UNCHANGED << objects, functor, blocks >>

\* a variant of Invoke that adds to the residual slots (+= for =)
Invoke_Accumulate(w) ==
  /\ pc[w] \in {"ready", "returned"}
  /\ pos_proj' = [pos_proj EXCEPT ![w] =
                    PosProj(KindOf(w), cam_K[w], cam_Rt[w], pos_3dpoint[w])]
  /\ x_u' = [x_u EXCEPT ![w] = Euclidean(pos_proj'[w])[1]]
  /\ y_u' = [y_u EXCEPT ![w] = Euclidean(pos_proj'[w])[2]]
  /\ out_residuals' = [out_residuals EXCEPT ![w] =
       << Add(out_residuals[w][1],
              Residual0(Projected(KindOf(w), cam_K[w], << x_u'[w], y_u'[w] >>), Obs(w))),
          Add(out_residuals[w][2],
              Residual1(Projected(KindOf(w), cam_K[w], << x_u'[w], y_u'[w] >>), Obs(w))) >>]
  /\ ret' = [ret EXCEPT ![w] = TRUE]
  /\ pc' = [pc EXCEPT ![w] = "returned"]
  /\ UNCHANGED << objects, functor, blocks >>

\* operator() of the functor of worker w, start to return, on the blocks
\* and the buffer of w; it may be invoked again on the buffer it just wrote
Invoke(w) ==
  /\ pc[w] \in {"ready", "returned"}
  /\ pos_proj' = [pos_proj EXCEPT ![w] =
                    PosProj(KindOf(w), cam_K[w], cam_Rt[w], pos_3dpoint[w])]
  /\ x_u' = [x_u EXCEPT ![w] = Euclidean(pos_proj'[w])[1]]
  /\ y_u' = [y_u EXCEPT ![w] = Euclidean(pos_proj'[w])[2]]
  /\ out_residuals' = [out_residuals EXCEPT ![w] =
       << Residual0(Projected(KindOf(w), cam_K[w], << x_u'[w], y_u'[w] >>), Obs(w)),
          Residual1(Projected(KindOf(w), cam_K[w], << x_u'[w], y_u'[w] >>), Obs(w)) >>]
  /\ ret' = [ret EXCEPT ![w] = TRUE]
  /\ pc' = [pc EXCEPT ![w] = "returned"]
  /\ UNCHANGED << objects, functor, blocks >>

\* the caller has read the residuals; the next evaluation gets a zeroed buffer
Release(w) ==
  /\ pc[w] = "returned"
  /\ pc' = [pc EXCEPT ![w] = "ready"]
  /\ out_residuals' = [out_residuals EXCEPT ![w] = NoResiduals]
  /\ ret' = [ret EXCEPT ![w] = FALSE]
  /\ pos_proj' = [pos_proj EXCEPT ![w] = NoPoint]
  /\ x_u' = [x_u EXCEPT ![w] = Zero]
  /\ y_u' = [y_u EXCEPT ![w] = Zero]
  /\ UNCHANGED << objects, functor, blocks >>

Next ==
  \/ Invoke(Main)
  \/ Release(Main)

Spec == Init /\ [][Next]_vars

----------------------------------------------------------------------------
(* Concurrent callers: two workers, each on its own blocks and its own     *)
(* buffer, step through operator() statement by statement                  *)

\* the observations of the two functor objects
ConcObs(i) == IF i = 1 THEN <<510, 500>> ELSE <<1, 0>>

\* the intrinsics block a worker passes to a functor of kind k
ConcK(k) ==
  CASE k = "Pinhole"  -> <<1000, 500, 500>>
    [] k = "RadialK1" -> <<1000, 500, 500, 1>>
    [] k = "RadialK3" -> <<1000, 500, 500, 1, 1, 1>>
    [] k = "Rig"      -> <<1000, 500, 500, 0, 0, 1, 0, 1, 1>>

ConcRtSet == { <<0, 0, 0, 0, 0, 1>>, <<1, 0, 0, 1, 0, 1>> }

ConcPointSet == { <<1, 1, 1>>, <<0, 1, 0>> }

\* two functors of any kinds; each worker invokes either of them
InitConc ==
  /\ kind \in [Instances -> Kinds]
  /\ pos_2dpoint = [i \in Instances |-> ConcObs(i)]
  /\ m_pos_2dpoint = [i \in Instances |-> Constructor(ConcObs(i))]
  /\ functor \in [Workers -> Instances]
  /\ cam_K = [w \in Workers |-> ConcK(kind[functor[w]])]
  /\ cam_Rt \in [Workers -> ConcRtSet]
  /\ pos_3dpoint \in [Workers -> ConcPointSet]
  /\ Idle

\* pose: AngleAxisRotatePoint and the translations, into the local pos_proj
StepPose(w) ==
  /\ pc[w] = "ready"
  /\ pos_proj' = [pos_proj EXCEPT ![w] =
                    PosProj(KindOf(w), cam_K[w], cam_Rt[w], pos_3dpoint[w])]
  /\ pc' = [pc EXCEPT ![w] = "divide"]
  /\ UNCHANGED << objects, functor, blocks, out_residuals, ret, x_u, y_u >>

\* a variant of StepDivide whose x_u and y_u are static: one copy for all workers
StepDivide_Static(w) ==
  /\ pc[w] = "divide"
  /\ x_u' = [v \in Workers |-> Euclidean(pos_proj[w])[1]]
  /\ y_u' = [v \in Workers |-> Euclidean(pos_proj[w])[2]]
  /\ pc' = [pc EXCEPT ![w] = "store0"]
  /\ UNCHANGED << objects, functor, blocks, out_residuals, ret, pos_proj >>

\* the locals x_u and y_u
StepDivide(w) ==
  /\ pc[w] = "divide"
  /\ x_u' = [x_u EXCEPT ![w] = Euclidean(pos_proj[w])[1]]
  /\ y_u' = [y_u EXCEPT ![w] = Euclidean(pos_proj[w])[2]]
  /\ pc' = [pc EXCEPT ![w] = "store0"]
  /\ UNCHANGED << objects, functor, blocks, out_residuals, ret, pos_proj >>

\* distortion, intrinsics, and the store to out_residuals[0]
StepStore0(w) ==
  /\ pc[w] = "store0"
  /\ out_residuals' = [out_residuals EXCEPT ![w][1] =
       Residual0(Projected(KindOf(w), cam_K[w], << x_u[w], y_u[w] >>), Obs(w))]
  /\ pc' = [pc EXCEPT ![w] = "store1"]
  /\ UNCHANGED << objects, functor, blocks, ret, pos_proj, x_u, y_u >>

\* the store to out_residuals[1]
StepStore1(w) ==
  /\ pc[w] = "store1"
  /\ out_residuals' = [out_residuals EXCEPT ![w][2] =
       Residual1(Projected(KindOf(w), cam_K[w], << x_u[w], y_u[w] >>), Obs(w))]
  /\ pc' = [pc EXCEPT ![w] = "return"]
  /\ UNCHANGED << objects, functor, blocks, ret, pos_proj, x_u, y_u >>

\* return true
StepReturn(w) ==
  /\ pc[w] = "return"
  /\ ret' = [ret EXCEPT ![w] = TRUE]
  /\ pc' = [pc EXCEPT ![w] = "returned"]
  /\ UNCHANGED << objects, functor, blocks, out_residuals, pos_proj, x_u, y_u >>

NextConc ==
  \E w \in Workers :
    \/ StepPose(w)
    \/ StepDivide(w)
    \/ StepStore0(w)
    \/ StepStore1(w)
    \/ StepReturn(w)
    \/ Release(w)

SpecConc == InitConc /\ [][NextConc]_vars

----------------------------------------------------------------------------
(* Properties *)

Returned(w) == pc[w] = "returned"

\* the camera-space depth of the last invocation of w is not zero
NonZeroDepth(w) == pos_proj[w][3] # Zero

Add3(a, b) == << Add(a[1], b[1]), Add(a[2], b[2]), Add(a[3], b[3]) >>

\* the residuals of the invocation of worker w, computed in one piece
Sequential(w) ==
  Evaluate(KindOf(w), Obs(w), cam_K[w], cam_Rt[w], pos_3dpoint[w])

\* the depth a Pinhole functor gets from the blocks of w
PinholeDepth(w) == ApplyPose(cam_Rt[w], pos_3dpoint[w])[3]

\* C1: a Rig functor whose sub-pose rotation and translation are zero writes
\* the residuals the Pinhole functor writes for [focal, ppx, ppy] and the
\* same extrinsics, point and observation, whatever the platform translation
C1_RigIdentitySubPoseIsPinhole ==
  ( /\ Returned(Main)
    /\ KindOf(Main) = "Rig"
    /\ SubSeq(cam_K[Main], 4, 9) = <<0, 0, 0, 0, 0, 0>>
    /\ NonZeroDepth(Main)
    /\ PinholeDepth(Main) # Zero )
  => out_residuals[Main] =
       Evaluate("Pinhole", Obs(Main), SubSeq(cam_K[Main], 1, 3),
                cam_Rt[Main], pos_3dpoint[Main])

\* C2: Radial-K1 with k1 = 0 and Radial-K3 with k1 = k2 = k3 = 0 write the
\* residuals of Pinhole on the same focal, principal point, extrinsics,
\* point and observation
C2_ZeroDistortionIsPinhole ==
  ( /\ Returned(Main)
    /\ NonZeroDepth(Main)
    /\ \/ KindOf(Main) = "RadialK1" /\ SubSeq(cam_K[Main], 4, 4) = <<0>>
       \/ KindOf(Main) = "RadialK3" /\ SubSeq(cam_K[Main], 4, 6) = <<0, 0, 0>> )
  => out_residuals[Main] =
       Evaluate("Pinhole", Obs(Main), SubSeq(cam_K[Main], 1, 3),
                cam_Rt[Main], pos_3dpoint[Main])

\* a Radial-K1 invocation with k1 = 0 off the optical axis has returned
C2_Witness ==
  /\ Returned(Main)
  /\ KindOf(Main) = "RadialK1"
  /\ cam_K[Main][4] = 0
  /\ NonZeroDepth(Main)
  /\ x_u[Main] # Zero
  /\ y_u[Main] # Zero

\* C3: for every k1, Radial-K3 on [focal, ppx, ppy, k1, 0, 0] writes the
\* residuals of Radial-K1 on [focal, ppx, ppy, k1]
C3_K3WithK1OnlyIsK1 ==
  ( /\ Returned(Main)
    /\ NonZeroDepth(Main)
    /\ KindOf(Main) = "RadialK3"
    /\ SubSeq(cam_K[Main], 5, 6) = <<0, 0>> )
  => out_residuals[Main] =
       Evaluate("RadialK1", Obs(Main), SubSeq(cam_K[Main], 1, 4),
                cam_Rt[Main], pos_3dpoint[Main])

\* a Radial-K3 invocation with k1 # 0, k2 = k3 = 0 and r2 = 2 has returned
C3_Witness ==
  /\ Returned(Main)
  /\ KindOf(Main) = "RadialK3"
  /\ cam_K[Main][4] # 0
  /\ SubSeq(cam_K[Main], 5, 6) = <<0, 0>>
  /\ NonZeroDepth(Main)
  /\ R2(<< x_u[Main], y_u[Main] >>) = ToT(2)

\* C4: a functor whose observation is the pixel it predicts for the inputs
\* (its residual on observation (0,0)) writes the residual (0,0)
C4_ExactProjectionZeroResidual ==
  ( /\ Returned(Main)
    /\ NonZeroDepth(Main)
    /\ << ToT(Obs(Main)[1]), ToT(Obs(Main)[2]) >> =
         Evaluate(KindOf(Main), <<0, 0>>, cam_K[Main], cam_Rt[Main],
                  pos_3dpoint[Main]) )
  => out_residuals[Main] = << Zero, Zero >>

\* a Rig functor observing its own off-centre prediction (500,500) has returned
C4_Witness ==
  /\ Returned(Main)
  /\ KindOf(Main) = "Rig"
  /\ NonZeroDepth(Main)
  /\ x_u[Main] # Zero
  /\ SubSeq(cam_K[Main], 2, 3) = <<0, 0>>
  /\ Obs(Main) = <<500, 500>>
  /\ out_residuals[Main] = << Zero, Zero >>

\* C5: Pinhole with a zero rotation vector writes
\* (ppx + focal*(X+tx)/(Z+tz) - obs_x, ppy + focal*(Y+ty)/(Z+tz) - obs_y);
\* translation (0,0,1), point (0,0,0), focal 1000, principal point (500,500)
\* give (0,0) on observation (500,500) and (-10,0) on observation (510,500)
C5_PinholeIdentityRotation ==
  ( /\ Returned(Main)
    /\ KindOf(Main) = "Pinhole"
    /\ SubSeq(cam_Rt[Main], 1, 3) = <<0, 0, 0>>
    /\ pos_3dpoint[Main][3] + cam_Rt[Main][6] # 0 )
  => LET K  == cam_K[Main]
         t  == SubSeq(cam_Rt[Main], 4, 6)
         X  == pos_3dpoint[Main]
         o  == Obs(Main)
         px == Add(ToT(K[2]), Div(Mul(ToT(K[1]), ToT(X[1] + t[1])), ToT(X[3] + t[3])))
         py == Add(ToT(K[3]), Div(Mul(ToT(K[1]), ToT(X[2] + t[2])), ToT(X[3] + t[3])))
     IN  /\ out_residuals[Main] = << Sub(px, ToT(o[1])), Sub(py, ToT(o[2])) >>
         /\ ( K = <<1000, 500, 500>> /\ t = <<0, 0, 1>> /\ X = <<0, 0, 0>> )
            => /\ o = <<500, 500>> => out_residuals[Main] = << Zero, Zero >>
               /\ o = <<510, 500>> => out_residuals[Main] = << ToT(-10), Zero >>

\* the end-to-end example on observation (510,500) has returned
C5_Witness ==
  /\ Returned(Main)
  /\ KindOf(Main) = "Pinhole"
  /\ cam_K[Main] = <<1000, 500, 500>>
  /\ cam_Rt[Main] = <<0, 0, 0, 0, 0, 1>>
  /\ pos_3dpoint[Main] = <<0, 0, 0>>
  /\ Obs(Main) = <<510, 500>>
  /\ out_residuals[Main] = << ToT(-10), Zero >>

\* C6: every invocation returns true, also at camera-space depth zero, where
\* the result of the division is carried into both residuals
C6_AlwaysSuccess ==
  Returned(Main) =>
    /\ ret[Main] = TRUE
    /\ ~NonZeroDepth(Main) => out_residuals[Main] = << NonFinite, NonFinite >>

\* an invocation at depth zero has returned true
C6_Witness ==
  /\ Returned(Main)
  /\ ~NonZeroDepth(Main)
  /\ pos_proj[Main][1] # Zero
  /\ ret[Main] = TRUE

\* C7: under every interleaving, the buffer of a worker that has returned
\* holds the residuals of one sequential invocation on its inputs, and two
\* workers with equal inputs and observations hold equal residuals
C7_ConcurrentIsSequential ==
  /\ \A w \in Workers :
       Returned(w) => ret[w] = TRUE /\ out_residuals[w] = Sequential(w)
  /\ \A v, w \in Workers :
       ( /\ Returned(v) /\ Returned(w)
         /\ KindOf(v) = KindOf(w) /\ Obs(v) = Obs(w)
         /\ cam_K[v] = cam_K[w] /\ cam_Rt[v] = cam_Rt[w]
         /\ pos_3dpoint[v] = pos_3dpoint[w] )
       => out_residuals[v] = out_residuals[w]

\* both workers have returned from the same functor object with different results
C7_Witness ==
  /\ Returned(Main)
  /\ Returned(Other)
  /\ functor[Main] = functor[Other]
  /\ cam_Rt[Main] # cam_Rt[Other]
  /\ IsFinite(out_residuals[Main][1])
  /\ IsFinite(out_residuals[Other][1])
  /\ out_residuals[Main] # out_residuals[Other]

\* C8: the Rig camera-space point is Rot(subpose_rotation, Rot(platform_rotation, X))
\* + subpose_translation + Rot(platform_rotation, subpose_translation)
\* + platform_translation
C8_RigCameraPoint ==
  ( Returned(Main) /\ KindOf(Main) = "Rig" )
  => LET platform_R == SubSeq(cam_Rt[Main], 1, 3)
         platform_t == SubSeq(cam_Rt[Main], 4, 6)
         subpose_R  == SubSeq(cam_K[Main], 4, 6)
         subpose_t  == SubSeq(cam_K[Main], 7, 9)
         X          == AsT(pos_3dpoint[Main])
     IN  pos_proj[Main] =
           Add3(Add3(Add3(AngleAxisRotatePoint(subpose_R,
                                               AngleAxisRotatePoint(platform_R, X)),
                          AsT(subpose_t)),
                     AngleAxisRotatePoint(platform_R, AsT(subpose_t))),
                AsT(platform_t))

\* C9: the radial functors write (ppx + focal*xu*coeff - obs_x,
\* ppy + focal*yu*coeff - obs_y), xu and yu the normalized coordinates,
\* r2 = xu*xu + yu*yu, coeff = 1 + k1*r2 (K1) or
\* 1 + k1*r2 + k2*r2*r2 + k3*r2*r2*r2 (K3)
C9_RadialDistortion ==
  ( Returned(Main) /\ KindOf(Main) \in {"RadialK1", "RadialK3"} )
  => LET K  == cam_K[Main]
         o  == Obs(Main)
         xu == x_u[Main]
         yu == y_u[Main]
         r2 == Add(Mul(xu, xu), Mul(yu, yu))
         t1 == Mul(ToT(K[4]), r2)
         coeff == IF KindOf(Main) = "RadialK1"
                  THEN Add(One, t1)
                  ELSE Add(Add(Add(One, t1), Mul(ToT(K[5]), Mul(r2, r2))),
                           Mul(ToT(K[6]), Mul(Mul(r2, r2), r2)))
     IN  /\ xu = Div(pos_proj[Main][1], pos_proj[Main][3])
         /\ yu = Div(pos_proj[Main][2], pos_proj[Main][3])
         /\ pos_proj[Main] = ApplyPose(cam_Rt[Main], pos_3dpoint[Main])
         /\ out_residuals[Main] =
              << Sub(Add(ToT(K[2]), Mul(Mul(ToT(K[1]), xu), coeff)), ToT(o[1])),
                 Sub(Add(ToT(K[3]), Mul(Mul(ToT(K[1]), yu), coeff)), ToT(o[2])) >>

\* a Radial-K3 invocation with k1, k2, k3 # 0 and xu # yu, both # 0, has returned
C9_Witness ==
  /\ Returned(Main)
  /\ KindOf(Main) = "RadialK3"
  /\ cam_K[Main][4] # 0 /\ cam_K[Main][5] # 0 /\ cam_K[Main][6] # 0
  /\ NonZeroDepth(Main)
  /\ x_u[Main] # Zero
  /\ y_u[Main] # Zero
  /\ x_u[Main] # y_u[Main]

\* C10: the stored observation always is the one given at construction; an
\* invocation changes no functor and no parameter block, and the residuals
\* it writes are those of its inputs, whatever the buffer held before
C10_InvocationFrame ==
  /\ [](\A i \in Instances : m_pos_2dpoint[i] = pos_2dpoint[i])
  /\ [][ \A w \in Workers :
           pc'[w] = "returned"
           => /\ objects' = objects
              /\ blocks' = blocks
              /\ functor' = functor
              /\ out_residuals'[w] = Sequential(w) ]_vars

\* an invocation has returned residuals other than (0,0), the buffer the
\* next invocation of the same functor starts from
C10_Witness ==
  /\ Returned(Main)
  /\ ret[Main] = TRUE
  /\ IsFinite(out_residuals[Main][1])
  /\ out_residuals[Main] # NoResiduals
  /\ Obs(Main) # <<0, 0>>

====
